---- MODULE Spec2Model ----
\* A model of libtwitch's webhook subscription subsystem (webhooks.go) and of
\* the access-token cache (client.go, authenticate).
\*
\* The specifications of this module:
\*   Spec           the registry of StreamWatchers, addStreamWatcher, the
\*                  webhook handler, StreamWatcher.Close, the consumer;
\*   SpecRenew      addStreamWatcher, StreamWatcher.Close, the renewal loops
\*                  with their tickers, TwitchClient.Close, one caller;
\*   SpecRenewFair  SpecRenew's steps, fewer inputs, the goroutines scheduled;
\*   SpecAuth       TwitchClient.authenticate and the wall clock it reads;
\*   SpecDelivery   Spec's deliveries with the history of sends and receives;
\*   SpecLocks      the registry lock and the token lock: the whole of
\*                  the above together with the lookups.
\* In every specification sw.sub() goes through TwitchClient.Request and
\* authenticate, and so through the token lock and the token cache, and the
\* wall clock that authenticate reads advances.
EXTENDS Integers, Sequences, FiniteSets, TLC

\* ---------------------------------------------------------------- bounds
NumThreads == 2         \* caller / handler goroutines of Spec
MaxWatchers == 2        \* StreamWatcher objects ever allocated
MaxDeliveries == 2      \* webhook deliveries that reach the send loop
NumAuthThreads == 2     \* goroutines calling authenticate in SpecAuth
MaxTime == 3            \* last instant of the clock of SpecAuth
MaxElapsed == 1         \* seconds the clock of the other specifications
                        \* runs through before it goes from deadline to deadline
MaxExpiresIn == 2       \* largest expires_in the identity endpoint answers
MaxTicks == 2           \* ticker periods the clock of SpecRenew runs through
MaxLockTicks == 1       \* ticker periods of SpecLocks and SpecRenewFair
NumCallers == 1         \* caller goroutines of SpecRenew and SpecRenewFair
MaxLockWatchers == 1    \* StreamWatcher objects ever allocated under SpecLocks

\* ------------------------------------------------------ program constants
ChanCap == 5            \* make(chan *Stream, 5), make(chan *Follow, 5)
LeaseSeconds == 600     \* lease: 10 * time.Minute
StatusOK == 200

Threads == 1..NumThreads
Callers == 1..NumCallers
NoThread == 0

Topics == {"streams", "follows"}
UserIDs == {"42"}

\* fmt.Sprintf("%s/%s", topic, userID)
makeTopicKeyUserOnly(topic, userID) == userID
makeTopicKey(topic, userID) == topic \o "/" \o userID

\* The provider's topic URL; "" with an error for a topic that is neither
\* streams nor follows.
makeTopicURL(topic, userID) ==
    CASE topic = "streams" ->
           [url |-> "https://api.twitch.tv/helix/streams?user_id=" \o userID,
            err |-> FALSE]
      [] topic = "follows" ->
           [url |-> "https://api.twitch.tv/helix/users/follows?first=1&to_id=" \o userID,
            err |-> FALSE]
      [] OTHER -> [url |-> "", err |-> TRUE]

\* url.Values.Encode sorts by key: topic before user_id.
makeCallbackURL(callbackURL, topic, userID) ==
    callbackURL \o "?topic=" \o topic \o "&user_id=" \o userID

CallbackURL == "http://cb"

\* c.callbackSecret: makeSecret()'s hex string, fixed at construction.
CallbackSecret == "5ec2e7"

\* ------------------------------------------------------------- payloads
\* JSON objects of a data array, and the JSON null as an element of one.
Obj1 == [viewer_count |-> 10, from_id |-> "1"]
Obj2 == [viewer_count |-> 20, from_id |-> "2"]
JNull == [null |-> TRUE]

\* A nil *Stream (the stream-down signal) and a nil *Follow.
NilStream == [kind |-> "nil"]
NilFollow == [kind |-> "nil"]

\* json.Unmarshal of one array element into a *Stream / a *Follow: a null
\* element leaves the pointer nil, an object is decoded by its tags.
DecodeStreamUntagged(o) ==
    IF o = JNull THEN NilStream ELSE [kind |-> "Stream", viewer_count |-> 0]
DecodeStream(o) ==
    IF o = JNull THEN NilStream
    ELSE [kind |-> "Stream", viewer_count |-> o.viewer_count]
DecodeFollow(o) ==
    IF o = JNull THEN NilFollow ELSE [kind |-> "Follow", from_id |-> o.from_id]

\* Request bodies. read = FALSE: ioutil.ReadAll fails. envelope: "empty" is a
\* zero-length body, "bad" is not a JSON object, "ok" is an object. data:
\* "absent" (no data member), "null" (the JSON null), "bad" (neither null
\* nor an array of objects and nulls) or "array", the array being items.
DataArrays == { <<>>, <<Obj1>>, <<JNull>>, <<Obj1, Obj2, Obj1>> }

Bodies ==
    { [read |-> FALSE, envelope |-> "ok", data |-> "absent", items |-> <<>>],
      [read |-> TRUE, envelope |-> "empty", data |-> "absent", items |-> <<>>],
      [read |-> TRUE, envelope |-> "bad", data |-> "absent", items |-> <<>>],
      [read |-> TRUE, envelope |-> "ok", data |-> "absent", items |-> <<>>],
      [read |-> TRUE, envelope |-> "ok", data |-> "null", items |-> <<>>],
      [read |-> TRUE, envelope |-> "ok", data |-> "bad", items |-> <<>>] }
    \cup { [read |-> TRUE, envelope |-> "ok", data |-> "array", items |-> d] :
             d \in DataArrays }

\* TwitchClient.marshalResponse: a zero-length body is no error and leaves
\* Data nil; otherwise the envelope must parse.
marshalResponse(body) ==
    IF body.envelope = "empty" THEN [err |-> FALSE, Data |-> "absent", items |-> <<>>]
    ELSE IF body.envelope = "bad" THEN [err |-> TRUE, Data |-> "absent", items |-> <<>>]
    ELSE [err |-> FALSE, Data |-> body.data, items |-> body.items]

\* json.Unmarshal(response.Data, &slice) into a slice of pointers: an array
\* gives one pointer per element (nil for a null element); the JSON null is
\* no error and leaves the slice without elements; nil Data (no data member,
\* a zero-length body) and any other value are errors.
UnmarshalData(response) ==
    IF response.Data = "array" THEN [err |-> FALSE, items |-> response.items]
    ELSE IF response.Data = "null" THEN [err |-> FALSE, items |-> <<>>]
    ELSE [err |-> TRUE, items |-> <<>>]

MapSeq(s, Op(_)) == [i \in 1..Len(s) |-> Op(s[i])]

\* ----------------------------------------------------------------- state
VARIABLES
    streamWatchers,     \* c.streamWatchers: topic key -> StreamWatcher (index of sws)
    streamWatchersMtx,  \* c.streamWatchersMtx: the goroutine holding it, or NoThread
    sws,                \* the StreamWatcher objects allocated so far
    clientCancelled,    \* c.ctx is cancelled (TwitchClient.Close)
    resub,              \* per StreamWatcher: its resub goroutine
    pc,                 \* per goroutine: where it is
    frame,              \* per goroutine: its locals
    subState,           \* per StreamWatcher: outcome of its initial sub()
    returned,           \* StreamWatchers handed to a caller by addStreamWatcher
    teardowns,          \* per StreamWatcher: runs of the closeOnce function
    ndeliv,             \* webhook deliveries that reached the send loop
    ticker,             \* per StreamWatcher: the time.Ticker of its resub goroutine
    subRequests,        \* per StreamWatcher: the subscribe requests sub() has sent
    trace,              \* history: per channel, the events sent and received so far
    token,              \* c.token
    tokenMtx,           \* c.tokenMtx: the goroutine holding it, or NoThread
    now,                \* time.Now(), in seconds
    apc,                \* per goroutine: where it is inside authenticate
    header,             \* per goroutine: what authenticate attached
    creds,              \* c.clientID, c.clientSecret
    granted             \* the identity endpoint's last grant: when, and its expires_in

authVars == << token, tokenMtx, now, apc, header, creds, granted >>
webVars == << streamWatchers, streamWatchersMtx, sws, clientCancelled, resub, pc,
              frame, subState, returned, teardowns, ndeliv, ticker, subRequests,
              trace >>
vars == << streamWatchers, streamWatchersMtx, sws, clientCancelled, resub, pc,
           frame, subState, returned, teardowns, ndeliv, ticker, subRequests,
           trace,
           token, tokenMtx, now, apc, header, creds, granted >>

WatcherIDs == 1..Len(sws)
AuthThreads == 1..NumAuthThreads

\* Every goroutine that can be inside authenticate: the callers and handlers,
\* and the resub goroutine of each StreamWatcher.
Goroutines ==
    1..(IF NumThreads + MaxWatchers > NumAuthThreads
        THEN NumThreads + MaxWatchers ELSE NumAuthThreads)
resubGoroutine(w) == NumThreads + w

\* A goroutine's locals while it runs a call, and, once the call has returned
\* (pc = "done"), what it returned or responded.
NoFrame == [op |-> "", sw |-> 0, key |-> "", chan |-> "", pending |-> <<>>,
            err |-> "", status |-> 0, body |-> "", req |-> "", data |-> <<>>]

\* Goroutine t's call returns r: the goroutine holds the result until Return.
Returns(t, r) ==
    /\ pc' = [pc EXCEPT ![t] = "done"]
    /\ frame' = [frame EXCEPT ![t] = r]
NoToken == [set |-> FALSE, ExpiresAt |-> 0]
NoHeader == [kind |-> "none", ExpiresAt |-> 0]
NoGrant == [set |-> FALSE, at |-> 0, expires_in |-> 0]

\* The StreamWatcher literal of addStreamWatcher, with context.WithCancel(c.ctx).
NewStreamWatcherCancelled(topic, userID) ==
    [topic |-> topic, userID |-> userID, lease |-> LeaseSeconds,
     streams |-> <<>>, follows |-> <<>>,
     streamsClosed |-> FALSE, followsClosed |-> FALSE,
     cancelled |-> TRUE, closeOnce |-> "fresh"]
NewStreamWatcher(topic, userID) ==
    [topic |-> topic, userID |-> userID, lease |-> LeaseSeconds,
     streams |-> <<>>, follows |-> <<>>,
     streamsClosed |-> FALSE, followsClosed |-> FALSE,
     cancelled |-> FALSE, closeOnce |-> "fresh"]

\* StreamWatcher.topicKey
topicKey(w) == makeTopicKey(sws[w].topic, sws[w].userID)

\* sw.ctx.Done(): the watcher's context is a child of the client's.
ctxDoneOwnOnly(w) == sws[w].cancelled
ctxDone(w) == sws[w].cancelled \/ clientCancelled

\* The subscribe request StreamWatcher.sub builds from the StreamWatcher sw:
\* Lease is the lease in whole seconds.
SubscriptionOf(sw) ==
    [Mode |-> "subscribe",
     Topic |-> makeTopicURL(sw.topic, sw.userID).url,
     Callback |-> makeCallbackURL(CallbackURL, sw.topic, sw.userID),
     Lease |-> sw.lease,
     Secret |-> CallbackSecret]

\* The body of StreamWatcher.sub's request.
WebhookSubscription(w) == SubscriptionOf(sws[w])

\* resub's ticker period, time.Duration(float64(sw.lease) * .9), in seconds
\* (for the lease of 600 s the float product is exactly 540 s).
ResubPeriodFullLease(lease) == lease
ResubPeriod(lease) == (lease * 9) \div 10

\* A StreamWatcher's ticker before its resub goroutine has made it, and as
\* time.NewTicker makes it at the instant at: the first tick is one period
\* later; the channel t.C holds at most one tick (pending).
NoTicker == [running |-> FALSE, period |-> 0, last |-> 0, pending |-> FALSE]
NewTicker(period, at) ==
    [running |-> TRUE, period |-> period, last |-> at, pending |-> FALSE]

\* The requests sub() has sent for a StreamWatcher: the one of
\* addStreamWatcher, those of the renewal loop, and the loop's last error.
NoRequests(sw) == [initial |-> SubscriptionOf(sw), renewed |-> {}, err |-> ""]

\* What the subscribe call can come back with: HTTP 202, another status, or
\* an error of Request (authentication, transport, unparsable response).
SubOutcomes == {"accepted", "status", "error"}

\* StreamWatcher.sub's result for an outcome: nil only for HTTP 202.
subError(outcome) ==
    CASE outcome = "accepted" -> ""
      [] outcome = "status" -> "unexpected status code"
      [] OTHER -> "error making request"

\* _, ok := c.streamWatchers[key]
HasKeyNever(m, key) == FALSE
HasKey(m, key) == key \in DOMAIN m

\* The map after removeStreamWatcher(topicKey): delete(c.streamWatchers,
\* topicKey); an absent key is no error.
removeNothing(m, key) == m
removeStreamWatcher(m, key) == [k \in (DOMAIN m) \ {key} |-> m[k]]

\* sw, ok := c.streamWatchers[key], for a key that is present.
lookupAny(m, key) == m[CHOOSE k \in DOMAIN m : TRUE]
lookup(m, key) == m[key]

\* The history of a run: for every StreamWatcher and each of its channels,
\* the events the handler's send loop has processed (sent) and those a
\* consumer has received (recv), in order. It is kept only by a run that
\* starts with the history switched on.
NoEvents == [streams |-> <<>>, follows |-> <<>>]
TraceOff == [on |-> FALSE, sent |-> <<>>, recv |-> <<>>]
TraceOn == [on |-> TRUE, sent |-> <<>>, recv |-> <<>>]
traceWatcher(tr) ==
    IF tr.on
    THEN [tr EXCEPT !.sent = Append(@, NoEvents), !.recv = Append(@, NoEvents)]
    ELSE tr
traceSent(tr, w, ch, e) ==
    IF tr.on THEN [tr EXCEPT !.sent[w][ch] = Append(@, e)] ELSE tr
traceRecv(tr, w, ch, e) ==
    IF tr.on THEN [tr EXCEPT !.recv[w][ch] = Append(@, e)] ELSE tr

\* The map after c.streamWatchers[key] = w.
MapPut(m, key, w) == [k \in (DOMAIN m) \cup {key} |-> IF k = key THEN w ELSE m[k]]

\* ------------------------------------------------- TwitchClient.Request
\* Goroutine g is inside TwitchClient.Request: in the sub() of
\* addStreamWatcher (the registry lock held), in a lookup, or in the sub() of
\* a resub goroutine.
InRequest(g) ==
    IF g \in Threads
    THEN pc[g] \in {"add_sub", "lookup"}
    ELSE /\ (g - NumThreads) \in WatcherIDs
         /\ resub[g - NumThreads] = "sub"

\* Request has not called c.authenticate(request) yet / authenticate has
\* returned, with the header set or with an error.
Authenticating(g) == InRequest(g) /\ header[g] = NoHeader /\ apc[g] = "idle"
Authenticated(g) == InRequest(g) /\ header[g].kind # "none"

\* What a call of Request can come back with once authenticate has returned:
\* an authentication error is returned as it is, before doRequest; otherwise
\* one of the answers of doRequest.
RequestOutcomes(g, answers) ==
    IF header[g].kind = "error" THEN {"error"} ELSE answers

\* The request is over: its header goes with it.
RequestDone(g) ==
    /\ header' = [header EXCEPT ![g] = NoHeader]
    /\ UNCHANGED << token, tokenMtx, now, apc, creds, granted >>


\* The client as NewTwitchClient leaves it: an empty registry, no goroutine
\* in a call.
InitWeb ==
    /\ streamWatchers = [k \in {} |-> 0]
    /\ streamWatchersMtx = NoThread
    /\ sws = <<>>
    /\ clientCancelled = FALSE
    /\ resub = <<>>
    /\ pc = [t \in Threads |-> "idle"]
    /\ frame = [t \in Threads |-> NoFrame]
    /\ subState = <<>>
    /\ returned = {}
    /\ teardowns = <<>>
    /\ ndeliv = 0
    /\ ticker = <<>>
    /\ subRequests = <<>>

\* No token cached, the token lock free.
InitToken ==
    /\ token = NoToken
    /\ tokenMtx = NoThread
    /\ now = 0
    /\ apc = [g \in Goroutines |-> "idle"]
    /\ header = [g \in Goroutines |-> NoHeader]
    /\ granted = NoGrant

Init ==
    /\ InitWeb
    /\ InitToken
    /\ creds = [clientID |-> "id", clientSecret |-> "secret"]
    /\ trace = TraceOff

\* ---------------------------------------------- TwitchClient.authenticate
\* The client's credentials, as NewTwitchClient was given them.
Credentials ==
    { [clientID |-> "", clientSecret |-> "secret"],
      [clientID |-> "id", clientSecret |-> ""],
      [clientID |-> "id", clientSecret |-> "secret"] }

InitAuth ==
    /\ InitWeb
    /\ InitToken
    /\ creds \in Credentials
    /\ trace = TraceOff

\* The expires_in values of the identity endpoint's JSON answers.
ExpiresInValues == 1..MaxExpiresIn

\* json.Unmarshal(body, t) for t.ExpiresIn: AccessToken tags both RefreshToken
\* and ExpiresIn `json:"refresh_token"`; encoding/json drops fields whose
\* names collide at one depth, so no member of the body reaches ExpiresIn and
\* it keeps its zero value.
UnmarshalExpiresIn(expires_in) == 0

\* time.Time.Before
Before(a, b) == a < b

\* authenticate's test for using the cached token.
UseCached(tok, t) == tok.set /\ Before(tok.ExpiresAt, t)

\* c.tokenMtx after authenticate's deferred c.tokenMtx.Unlock().
tokenUnlockMissing(holder) == holder
tokenUnlock(holder) == NoThread

\* authenticate up to the token request: no client id is an error; no secret
\* sets Client-ID only; otherwise lock, and either attach the cached token
\* (the deferred Unlock runs) or send the token request, the lock held.
AuthBegin(t) ==
    /\ apc[t] = "idle"
    /\ IF creds.clientID = ""
       THEN /\ header' = [header EXCEPT ![t] = [NoHeader EXCEPT !.kind = "error"]]
            /\ UNCHANGED << tokenMtx, apc >>
       ELSE IF creds.clientSecret = ""
       THEN /\ header' = [header EXCEPT ![t] = [NoHeader EXCEPT !.kind = "Client-ID"]]
            /\ UNCHANGED << tokenMtx, apc >>
       ELSE /\ tokenMtx = NoThread
            /\ IF UseCached(token, now)
               THEN /\ header' = [header EXCEPT ![t] =
                                    [kind |-> "Bearer", ExpiresAt |-> token.ExpiresAt]]
                    /\ UNCHANGED << tokenMtx, apc >>
               ELSE /\ tokenMtx' = t
                    /\ apc' = [apc EXCEPT ![t] = "fetching"]
                    /\ header' = [header EXCEPT ![t] = NoHeader]
    /\ UNCHANGED << token, now, creds, granted >>
    /\ UNCHANGED webVars

\* The token request returns. An error or a status other than 200: return
\* the error. 200: decode, ExpiresAt = time.Now() + ExpiresIn seconds, cache
\* the token, attach it. The deferred Unlock runs.
AuthFetchReturn(t, outcome, expires_in) ==
    /\ apc[t] = "fetching"
    /\ IF outcome = "ok"
       THEN /\ token' = [set |-> TRUE,
                         ExpiresAt |-> now + UnmarshalExpiresIn(expires_in)]
            /\ granted' = [set |-> TRUE, at |-> now, expires_in |-> expires_in]
            /\ header' = [header EXCEPT ![t] =
                            [kind |-> "Bearer",
                             ExpiresAt |-> now + UnmarshalExpiresIn(expires_in)]]
       ELSE /\ header' = [header EXCEPT ![t] = [NoHeader EXCEPT !.kind = "error"]]
            /\ UNCHANGED << token, granted >>
    /\ tokenMtx' = tokenUnlock(tokenMtx)
    /\ apc' = [apc EXCEPT ![t] = "idle"]
    /\ UNCHANGED << now, creds >>
    /\ UNCHANGED webVars

\* Request calls c.authenticate(request).
RequestAuth(g) ==
    /\ Authenticating(g)
    /\ AuthBegin(g)

\* The clock advances by a second, up to the instant limit.
Tick(limit) ==
    /\ now < limit
    /\ now' = now + 1
    /\ UNCHANGED << token, tokenMtx, apc, header, creds, granted >>
    /\ UNCHANGED webVars

\* What the token request comes back with: 200, another status, an error.
TokenOutcomes == {"ok", "status", "error"}

NextAuth ==
    \/ \E t \in AuthThreads : AuthBegin(t)
    \/ \E t \in AuthThreads, o \in TokenOutcomes, e \in ExpiresInValues :
          AuthFetchReturn(t, o, e)
    \/ Tick(MaxTime)

SpecAuth == InitAuth /\ [][NextAuth]_vars

\* ------------------------------------------------------ addStreamWatcher
\* Lock, look the key up; an existing key: unlock and return the error. A new
\* key: allocate the StreamWatcher, insert it, and call sw.sub() with the
\* lock held (sub() is now inside TwitchClient.Request).
AddBegin(t, topic, userID) ==
    /\ pc[t] = "idle"
    /\ streamWatchersMtx = NoThread
    /\ LET key == makeTopicKey(topic, userID) IN
       IF HasKey(streamWatchers, key)
       THEN /\ Returns(t, [NoFrame EXCEPT !.op = "add", !.key = key,
                                           !.err = "already subscribed to topic"])
            /\ UNCHANGED << streamWatchers, streamWatchersMtx, sws, resub,
                            subState, teardowns, ticker, subRequests, trace >>
       ELSE /\ Len(sws) < MaxWatchers
            /\ trace' = traceWatcher(trace)
            /\ sws' = Append(sws, NewStreamWatcher(topic, userID))
            /\ streamWatchers' = MapPut(streamWatchers, key, Len(sws) + 1)
            /\ streamWatchersMtx' = t
            /\ resub' = Append(resub, "none")
            /\ subState' = Append(subState, "pending")
            /\ teardowns' = Append(teardowns, 0)
            /\ ticker' = Append(ticker, NoTicker)
            /\ subRequests' = Append(subRequests,
                                     NoRequests(NewStreamWatcher(topic, userID)))
            /\ frame' = [frame EXCEPT ![t] = [NoFrame EXCEPT !.op = "add",
                                                              !.sw = Len(sws) + 1,
                                                              !.key = key]]
            /\ pc' = [pc EXCEPT ![t] = "add_sub"]
    /\ UNCHANGED << clientCancelled, returned, ndeliv >>
    /\ UNCHANGED authVars

\* sw.sub() returns. nil: go sw.resub(), unlock, return the StreamWatcher.
\* An error: unlock; removeStreamWatcher is still to run.
AddSubReturn(t, outcome) ==
    /\ pc[t] = "add_sub"
    /\ Authenticated(t)
    /\ outcome \in RequestOutcomes(t, SubOutcomes)
    /\ LET w == frame[t].sw IN
       IF subError(outcome) = ""
       THEN /\ resub' = [resub EXCEPT ![w] = "start"]
            /\ subState' = [subState EXCEPT ![w] =
                              IF outcome = "accepted" THEN "accepted" ELSE "failed"]
            /\ returned' = returned \cup {w}
            /\ Returns(t, [NoFrame EXCEPT !.op = "add", !.key = frame[t].key,
                                           !.sw = w])
       ELSE /\ subState' = [subState EXCEPT ![w] = "failed"]
            /\ pc' = [pc EXCEPT ![t] = "add_remove"]
            /\ frame' = [frame EXCEPT ![t].err = subError(outcome)]
            /\ UNCHANGED << resub, returned >>
    /\ streamWatchersMtx' = NoThread
    /\ UNCHANGED << streamWatchers, sws, clientCancelled, teardowns, ndeliv,
                    ticker, subRequests >>
    /\ UNCHANGED trace
    /\ RequestDone(t)

\* The failure path's c.removeStreamWatcher(sw.topicKey()), then return nil, err.
AddRemove(t) ==
    /\ pc[t] = "add_remove"
    /\ streamWatchersMtx = NoThread
    /\ streamWatchers' = removeStreamWatcher(streamWatchers, frame[t].key)
    /\ Returns(t, [NoFrame EXCEPT !.op = "add", !.key = frame[t].key,
                                   !.err = frame[t].err])
    /\ UNCHANGED << streamWatchersMtx, sws, clientCancelled, resub, subState,
                    returned, teardowns, ndeliv >>
    /\ UNCHANGED << ticker, subRequests >>
    /\ UNCHANGED trace
    /\ UNCHANGED authVars

\* -------------------------------------------------------- WebhookHandler
\* Values the handler can read from the query string.
TopicParams == {"", "streams", "follows", "games"}
UserIDParams == {""} \cup UserIDs
HubTopicParams ==
    { makeTopicURL("streams", u).url : u \in UserIDs }
        \cup { makeTopicKey("streams", u) : u \in UserIDs }
Challenges == {"", "abc123"}

\* The handler's response: a status and a body.
Responded(status, body) ==
    [NoFrame EXCEPT !.op = "handler", !.status = status, !.body = body]

\* rw.Write([]byte(r.URL.Query().Get("hub.challenge"))): the response body.
writeNothing(challenge) == ""
writeChallenge(challenge) == challenge

\* hub.mode = subscribe / unsubscribe: write the challenge. No WriteHeader
\* call: the first Write sends status 200. The frame keeps the request's
\* hub.challenge next to the response.
HandlerChallenge(t, mode, challenge) ==
    /\ pc[t] = "idle"
    /\ mode \in {"subscribe", "unsubscribe"}
    /\ Returns(t, [Responded(StatusOK, writeChallenge(challenge))
                     EXCEPT !.op = "challenge", !.key = mode, !.req = challenge])
    /\ UNCHANGED << streamWatchers, streamWatchersMtx, sws, clientCancelled, resub,
                    subState, returned, teardowns, ndeliv >>
    /\ UNCHANGED << ticker, subRequests >>
    /\ UNCHANGED trace
    /\ UNCHANGED authVars

\* hub.mode = denied: c.removeStreamWatcher(hub.topic), then 200.
HandlerDenied(t, hubTopic) ==
    /\ pc[t] = "idle"
    /\ streamWatchersMtx = NoThread
    /\ streamWatchers' = removeStreamWatcher(streamWatchers, hubTopic)
    /\ Returns(t, [Responded(StatusOK, "") EXCEPT !.op = "denied", !.key = hubTopic])
    /\ UNCHANGED << streamWatchersMtx, sws, clientCancelled, resub,
                    subState, returned, teardowns, ndeliv >>
    /\ UNCHANGED << ticker, subRequests >>
    /\ UNCHANGED trace
    /\ UNCHANGED authVars

\* What the delivery path is about to send, from the topic and the body:
\* the channel and the events, or nothing (every early return).
Delivery(topic, body) ==
    LET response == marshalResponse(body)
        parsed == UnmarshalData(response)
        nothing == [chan |-> "", pending |-> <<>>]
    IN  IF ~body.read \/ response.err THEN nothing
        ELSE IF topic = "streams"
        THEN IF parsed.err THEN nothing
             ELSE IF Len(parsed.items) = 0
                  THEN [chan |-> "streams", pending |-> << NilStream >>]
                  ELSE [chan |-> "streams", pending |-> MapSeq(parsed.items, DecodeStream)]
        ELSE IF topic = "follows"
        THEN IF parsed.err \/ Len(parsed.items) = 0 THEN nothing
             ELSE [chan |-> "follows", pending |-> MapSeq(parsed.items, DecodeFollow)]
        ELSE nothing

\* The delivery path up to the read of the body: the parameter check, the
\* lock, the lookup. A missing parameter responds 200 without the lock; an
\* absent key responds 200 (the deferred Unlock runs); otherwise the handler
\* keeps the lock and goes on to ioutil.ReadAll(r.Body). Its frame keeps the
\* StreamWatcher it found, the key and the request's topic (chan).
HandlerDeliver(t, topic, userID) ==
    /\ pc[t] = "idle"
    /\ LET key == makeTopicKey(topic, userID) IN
       IF topic = "" \/ userID = ""
       THEN /\ Returns(t, Responded(StatusOK, ""))
            /\ UNCHANGED streamWatchersMtx
       ELSE /\ streamWatchersMtx = NoThread
            /\ IF ~HasKey(streamWatchers, key)
               THEN /\ Returns(t, Responded(StatusOK, ""))
                    /\ UNCHANGED streamWatchersMtx
               ELSE /\ streamWatchersMtx' = t
                    /\ pc' = [pc EXCEPT ![t] = "h_read"]
                    /\ frame' = [frame EXCEPT ![t] =
                                   [NoFrame EXCEPT
                                      !.op = "handler",
                                      !.sw = lookup(streamWatchers, key),
                                      !.key = key,
                                      !.chan = topic]]
    /\ UNCHANGED << streamWatchers, sws, clientCancelled, resub, subState, returned,
                    teardowns, ndeliv >>
    /\ UNCHANGED << ticker, subRequests >>
    /\ UNCHANGED trace
    /\ UNCHANGED authVars

\* The body is in (or ReadAll has failed), the lock still held: parse it.
\* Every early return responds 200 (the deferred Unlock runs); otherwise the
\* handler goes on to send, its frame keeping the request's data array next
\* to the decoded events.
HandlerRead(t, body) ==
    /\ pc[t] = "h_read"
    /\ IF Delivery(frame[t].chan, body).pending = <<>>
       THEN /\ Returns(t, Responded(StatusOK, ""))
            /\ streamWatchersMtx' = NoThread
            /\ UNCHANGED ndeliv
       ELSE /\ ndeliv < MaxDeliveries
            /\ ndeliv' = ndeliv + 1
            /\ pc' = [pc EXCEPT ![t] = "h_send"]
            /\ frame' = [frame EXCEPT
                           ![t].data = body.items,
                           ![t].chan = Delivery(frame[t].chan, body).chan,
                           ![t].pending = Delivery(frame[t].chan, body).pending]
            /\ UNCHANGED streamWatchersMtx
    /\ UNCHANGED << streamWatchers, sws, clientCancelled, resub, subState, returned,
                    teardowns >>
    /\ UNCHANGED << ticker, subRequests >>
    /\ UNCHANGED trace
    /\ UNCHANGED authVars

\* A channel of a StreamWatcher: its buffer and whether it is closed.
ChanBuf(w, ch) == IF ch = "streams" THEN sws[w].streams ELSE sws[w].follows
ChanClosed(w, ch) == IF ch = "streams" THEN sws[w].streamsClosed ELSE sws[w].followsClosed

\* select { case ch <- e: default: } on a buffer: enqueue if there is room,
\* drop otherwise.
TrySendFront(buf, e) == IF Len(buf) < ChanCap THEN << e >> \o buf ELSE buf
TrySend(buf, e) == IF Len(buf) < ChanCap THEN Append(buf, e) ELSE buf

\* One iteration of the send loop, the lock still held. The follows loop
\* first reads follow.FromID and follow.ToID for its log line: a nil *Follow
\* panics there, before the send. A send on a closed channel panics. A panic
\* runs the deferred Unlock and no response is written. After the last
\* element: 200 and the deferred Unlock.
HandlerSend(t) ==
    /\ pc[t] = "h_send"
    /\ LET w == frame[t].sw
           ch == frame[t].chan
           e == Head(frame[t].pending)
           rest == Tail(frame[t].pending)
       IN  IF ch = "follows" /\ e = NilFollow
           THEN /\ Returns(t, [NoFrame EXCEPT !.op = "handler",
                                               !.err = "panic: nil pointer dereference"])
                /\ streamWatchersMtx' = NoThread
                /\ UNCHANGED << sws, trace >>
           ELSE IF ChanClosed(w, ch)
           THEN /\ Returns(t, [NoFrame EXCEPT !.op = "handler",
                                               !.err = "panic: send on closed channel"])
                /\ streamWatchersMtx' = NoThread
                /\ UNCHANGED << sws, trace >>
           ELSE /\ sws' = IF ch = "streams"
                          THEN [sws EXCEPT ![w].streams = TrySend(@, e)]
                          ELSE [sws EXCEPT ![w].follows = TrySend(@, e)]
                /\ trace' = traceSent(trace, w, ch, e)
                /\ IF rest = <<>>
                   THEN /\ Returns(t, Responded(StatusOK, ""))
                        /\ streamWatchersMtx' = NoThread
                   ELSE /\ frame' = [frame EXCEPT ![t].pending = rest]
                        /\ UNCHANGED << pc, streamWatchersMtx >>
    /\ UNCHANGED << streamWatchers, clientCancelled, resub, subState, returned,
                    teardowns, ndeliv >>
    /\ UNCHANGED << ticker, subRequests >>
    /\ UNCHANGED authVars

\* The consumer of a returned StreamWatcher receives from Streams() / Follows().
Recv(w, ch) ==
    /\ w \in returned
    /\ ChanBuf(w, ch) # <<>>
    /\ sws' = IF ch = "streams"
              THEN [sws EXCEPT ![w].streams = Tail(@)]
              ELSE [sws EXCEPT ![w].follows = Tail(@)]
    /\ trace' = traceRecv(trace, w, ch, Head(ChanBuf(w, ch)))
    /\ UNCHANGED << streamWatchers, streamWatchersMtx, clientCancelled, resub, pc,
                    frame, subState, returned, teardowns, ndeliv >>
    /\ UNCHANGED << ticker, subRequests >>
    /\ UNCHANGED authVars

\* --------------------------------------------------- StreamWatcher.Close
\* sync.Once.Do on a Once in the given state: run the function, wait for the
\* goroutine that is running it, or return at once.
closeOnceAlwaysRuns(state) == "run"
closeOnceDo(state) ==
    CASE state = "fresh" -> "run"
      [] state = "running" -> "wait"
      [] OTHER -> "skip"

\* A caller holding a returned StreamWatcher calls Close: sw.closeOnce.Do(...).
\* A caller that finds the Once running waits for it, then returns.
CloseCall(t, w) ==
    /\ pc[t] = "idle"
    /\ w \in returned
    /\ closeOnceDo(sws[w].closeOnce) # "wait"
    /\ IF closeOnceDo(sws[w].closeOnce) = "run"
       THEN /\ sws' = [sws EXCEPT ![w].closeOnce = "running"]
            /\ teardowns' = [teardowns EXCEPT ![w] = @ + 1]
            /\ pc' = [pc EXCEPT ![t] = "close_streams"]
            /\ frame' = [frame EXCEPT ![t] = [NoFrame EXCEPT !.op = "close", !.sw = w,
                                                              !.key = topicKey(w)]]
       ELSE /\ Returns(t, [NoFrame EXCEPT !.op = "close", !.sw = w])
            /\ UNCHANGED << sws, teardowns >>
    /\ UNCHANGED << streamWatchers, streamWatchersMtx, clientCancelled, resub,
                    subState, returned, ndeliv >>
    /\ UNCHANGED << ticker, subRequests >>
    /\ UNCHANGED trace
    /\ UNCHANGED authVars

\* The teardown's statement after close(ch): close(sw.streams) is followed by
\* close(sw.follows), that by sw.cancel().
afterCloseSkipsFollows(ch) == "close_cancel"
afterClose(ch) == IF ch = "streams" THEN "close_follows" ELSE "close_cancel"

\* close(sw.streams) / close(sw.follows), no lock held. Closing a closed
\* channel panics: the Once is left done and Close unwinds.
CloseChannel(t, ch) ==
    /\ pc[t] = (IF ch = "streams" THEN "close_streams" ELSE "close_follows")
    /\ LET w == frame[t].sw IN
       IF ChanClosed(w, ch)
       THEN /\ sws' = [sws EXCEPT ![w].closeOnce = "done"]
            /\ Returns(t, [NoFrame EXCEPT !.op = "close", !.sw = w,
                                           !.err = "panic: close of closed channel"])
       ELSE /\ sws' = IF ch = "streams"
                      THEN [sws EXCEPT ![w].streamsClosed = TRUE]
                      ELSE [sws EXCEPT ![w].followsClosed = TRUE]
            /\ pc' = [pc EXCEPT ![t] = afterClose(ch)]
            /\ UNCHANGED frame
    /\ UNCHANGED << streamWatchers, streamWatchersMtx, clientCancelled, resub,
                    subState, returned, teardowns, ndeliv >>
    /\ UNCHANGED << ticker, subRequests >>
    /\ UNCHANGED trace
    /\ UNCHANGED authVars

\* sw.cancel()
CloseCancel(t) ==
    /\ pc[t] = "close_cancel"
    /\ sws' = [sws EXCEPT ![frame[t].sw].cancelled = TRUE]
    /\ pc' = [pc EXCEPT ![t] = "close_remove"]
    /\ UNCHANGED << streamWatchers, streamWatchersMtx, clientCancelled, resub, frame,
                    subState, returned, teardowns, ndeliv >>
    /\ UNCHANGED << ticker, subRequests >>
    /\ UNCHANGED trace
    /\ UNCHANGED authVars

\* sw.client.removeStreamWatcher(sw.topicKey()); the Once function returns
\* and Close with it.
CloseRemove(t) ==
    /\ pc[t] = "close_remove"
    /\ streamWatchersMtx = NoThread
    /\ streamWatchers' = removeStreamWatcher(streamWatchers, frame[t].key)
    /\ sws' = [sws EXCEPT ![frame[t].sw].closeOnce = "done"]
    /\ Returns(t, [NoFrame EXCEPT !.op = "close", !.sw = frame[t].sw])
    /\ UNCHANGED << streamWatchersMtx, clientCancelled, resub, subState, returned,
                    teardowns, ndeliv >>
    /\ UNCHANGED << ticker, subRequests >>
    /\ UNCHANGED trace
    /\ UNCHANGED authVars

\* ----------------------------------------------------- resub, client Close
\* The last instant of a clock that runs through so many ticker periods.
ClockEnd(ticks) == ticks * ResubPeriod(LeaseSeconds) + MaxElapsed

\* A second of wall-clock time passes between two steps of the goroutines.
\* The clock is followed second by second through its first MaxElapsed
\* seconds; from there it goes from ticker deadline to ticker deadline
\* (TickerFire). Once a second has passed since a token was cached,
\* authenticate's test finds the token's ExpiresAt before time.Now() for good.
ClockTick == Tick(MaxElapsed)

\* go sw.resub(): the goroutine starts and makes its ticker.
ResubStart(w) ==
    /\ w \in WatcherIDs
    /\ resub[w] = "start"
    /\ resub' = [resub EXCEPT ![w] = "select"]
    /\ ticker' = [ticker EXCEPT ![w] = NewTicker(ResubPeriod(sws[w].lease), now)]
    /\ UNCHANGED << streamWatchers, streamWatchersMtx, sws, clientCancelled, pc,
                    frame, subState, returned, teardowns, ndeliv, subRequests >>
    /\ UNCHANGED trace
    /\ UNCHANGED authVars

\* The ticker of StreamWatcher w fires: one period after its last tick (or
\* after its creation) a tick is put in t.C. The period (540 s) is long
\* against a step of the loop and against a sub() call, whose requests the
\* client's 10 s timeout bounds: when a period has gone by, the goroutine has
\* taken the earlier tick, has returned from sub(), and has taken a Done case
\* that was ready; and no earlier tick of another ticker is still to come.
TickerFire(w) ==
    /\ w \in WatcherIDs
    /\ ticker[w].running
    /\ resub[w] = "select"
    /\ ~ticker[w].pending
    /\ ~ctxDone(w)
    /\ ticker[w].last + ticker[w].period <= ClockEnd(MaxTicks)
    /\ \A v \in WatcherIDs :
          ticker[v].running
          => ticker[v].last + ticker[v].period >= ticker[w].last + ticker[w].period
    /\ now' = ticker[w].last + ticker[w].period
    /\ ticker' = [ticker EXCEPT ![w].last = @ + ticker[w].period,
                                ![w].pending = TRUE]
    /\ UNCHANGED << streamWatchers, streamWatchersMtx, sws, clientCancelled, resub,
                    pc, frame, subState, returned, teardowns, ndeliv, subRequests,
                    trace >>
    /\ UNCHANGED << token, tokenMtx, apc, header, creds, granted >>

\* The ticker case of resub's select: take the tick and call sw.sub() (the
\* subscribe request is now outstanding). The select takes a ready case at
\* random, so a tick can be taken although the context is done.
ResubTick(w) ==
    /\ w \in WatcherIDs
    /\ resub[w] = "select"
    /\ ticker[w].pending
    /\ resub' = [resub EXCEPT ![w] = "sub"]
    /\ ticker' = [ticker EXCEPT ![w].pending = FALSE]
    /\ subRequests' = [subRequests EXCEPT
                         ![w].renewed = @ \cup { WebhookSubscription(w) }]
    /\ UNCHANGED << streamWatchers, streamWatchersMtx, sws, clientCancelled, pc,
                    frame, subState, returned, teardowns, ndeliv >>
    /\ UNCHANGED trace
    /\ UNCHANGED authVars

\* Where the loop goes after sub() returned err: the error is only logged.
resubStopOnError(err) == IF err = "" THEN "select" ELSE "stopped"
resubAfterSub(err) == "select"

\* sw.sub() returns to the loop.
ResubSubReturn(w, outcome) ==
    /\ w \in WatcherIDs
    /\ resub[w] = "sub"
    /\ Authenticated(resubGoroutine(w))
    /\ outcome \in RequestOutcomes(resubGoroutine(w), SubOutcomes)
    /\ resub' = [resub EXCEPT ![w] = resubAfterSub(subError(outcome))]
    /\ subRequests' = [subRequests EXCEPT ![w].err = subError(outcome)]
    /\ UNCHANGED << streamWatchers, streamWatchersMtx, sws, clientCancelled, pc,
                    frame, subState, returned, teardowns, ndeliv, ticker >>
    /\ UNCHANGED trace
    /\ RequestDone(resubGoroutine(w))

\* The sw.ctx.Done() case: stop the ticker and return.
ResubDone(w) ==
    /\ w \in WatcherIDs
    /\ resub[w] = "select"
    /\ ctxDone(w)
    /\ resub' = [resub EXCEPT ![w] = "stopped"]
    /\ ticker' = [ticker EXCEPT ![w].running = FALSE]
    /\ UNCHANGED << streamWatchers, streamWatchersMtx, sws, clientCancelled, pc,
                    frame, subState, returned, teardowns, ndeliv, subRequests >>
    /\ UNCHANGED trace
    /\ UNCHANGED authVars

\* TwitchClient.Close: c.cancel()
ClientClose ==
    /\ ~clientCancelled
    /\ clientCancelled' = TRUE
    /\ UNCHANGED << streamWatchers, streamWatchersMtx, sws, resub, pc, frame,
                    subState, returned, teardowns, ndeliv >>
    /\ UNCHANGED << ticker, subRequests >>
    /\ UNCHANGED trace
    /\ UNCHANGED authVars

\* The caller (or the HTTP server) takes the result; the goroutine is free
\* for its next call.
Return(t) ==
    /\ pc[t] = "done"
    /\ pc' = [pc EXCEPT ![t] = "idle"]
    /\ frame' = [frame EXCEPT ![t] = NoFrame]
    /\ UNCHANGED << streamWatchers, streamWatchersMtx, sws, clientCancelled, resub,
                    subState, returned, teardowns, ndeliv >>
    /\ UNCHANGED << ticker, subRequests >>
    /\ UNCHANGED trace
    /\ UNCHANGED authVars

\* ------------------------------------------------------------- lookups
\* getUser / getGame / getStream: c.Request("GET", path, ...), no lock held.
LookupBegin(t, path) ==
    /\ pc[t] = "idle"
    /\ pc' = [pc EXCEPT ![t] = "lookup"]
    /\ frame' = [frame EXCEPT ![t] = [NoFrame EXCEPT !.op = "lookup", !.key = path]]
    /\ UNCHANGED << streamWatchers, streamWatchersMtx, sws, clientCancelled, resub,
                    subState, returned, teardowns, ndeliv >>
    /\ UNCHANGED << ticker, subRequests >>
    /\ UNCHANGED trace
    /\ UNCHANGED authVars

\* What the lookup's request can come back with: HTTP 200, another status,
\* or an error of doRequest.
LookupOutcomes == {"ok", "status", "error"}

\* The bodies doRequest hands to Request (a body it cannot read is its error).
AnswerBodies == { b \in Bodies : b.read }

\* The lookup's error for an outcome and the answer's body. An error of
\* Request (authentication, doRequest, an envelope marshalResponse cannot
\* parse) comes first, then the status; for a 200 the data must decode into
\* a slice with exactly one element, which is returned.
lookupError(outcome, body) ==
    IF outcome = "error" \/ marshalResponse(body).err THEN "error making request"
    ELSE IF outcome = "status" THEN "unexpected status code"
    ELSE IF UnmarshalData(marshalResponse(body)).err THEN "failed to parse response"
    ELSE IF Len(UnmarshalData(marshalResponse(body)).items) = 0 THEN "not found"
    ELSE IF Len(UnmarshalData(marshalResponse(body)).items) > 1
         THEN "multiple results found"
    ELSE ""

\* The lookup's Request returns and the lookup with it: the error, or the one
\* element of the answer (data).
LookupReturn(t, outcome, body) ==
    /\ pc[t] = "lookup"
    /\ Authenticated(t)
    /\ outcome \in RequestOutcomes(t, LookupOutcomes)
    /\ Returns(t, [NoFrame EXCEPT
                     !.op = "lookup", !.key = frame[t].key,
                     !.err = lookupError(outcome, body),
                     !.data = IF lookupError(outcome, body) = ""
                              THEN marshalResponse(body).items ELSE <<>>])
    /\ UNCHANGED << streamWatchers, streamWatchersMtx, sws, clientCancelled, resub,
                    subState, returned, teardowns, ndeliv >>
    /\ UNCHANGED << ticker, subRequests >>
    /\ UNCHANGED trace
    /\ RequestDone(t)

\* --------------------------------------------------------- specifications
Next ==
    \/ \E t \in Threads, tp \in Topics, u \in UserIDs : AddBegin(t, tp, u)
    \/ \E t \in Threads, o \in SubOutcomes : AddSubReturn(t, o)
    \/ \E g \in Goroutines : RequestAuth(g)
    \/ \E g \in Goroutines, o \in TokenOutcomes : AuthFetchReturn(g, o, MaxExpiresIn)
    \/ \E t \in Threads : AddRemove(t)
    \/ \E t \in Threads, m \in {"subscribe", "unsubscribe"}, c \in Challenges :
          HandlerChallenge(t, m, c)
    \/ \E t \in Threads, h \in HubTopicParams : HandlerDenied(t, h)
    \/ \E t \in Threads, tp \in TopicParams, u \in UserIDParams :
          HandlerDeliver(t, tp, u)
    \/ \E t \in Threads, b \in Bodies : HandlerRead(t, b)
    \/ \E t \in Threads : HandlerSend(t)
    \/ \E w \in WatcherIDs, ch \in Topics : Recv(w, ch)
    \/ \E t \in Threads, w \in WatcherIDs : CloseCall(t, w)
    \/ \E t \in Threads, ch \in Topics : CloseChannel(t, ch)
    \/ \E t \in Threads : CloseCancel(t)
    \/ \E t \in Threads : CloseRemove(t)
    \/ ClockTick
    \/ \E t \in Threads : Return(t)

\* The registry, the handler, Close and the consumer, the subscribe call of
\* addStreamWatcher going through authenticate. The renewal loop and
\* TwitchClient.Close touch neither the registry, nor a channel, nor the
\* registry lock; they run under SpecRenew.
Spec == Init /\ [][Next]_vars

NextRenew ==
    \/ \E t \in Callers, tp \in Topics, u \in UserIDs : AddBegin(t, tp, u)
    \/ \E t \in Callers, o \in SubOutcomes : AddSubReturn(t, o)
    \/ \E g \in Goroutines : RequestAuth(g)
    \/ \E g \in Goroutines, o \in TokenOutcomes : AuthFetchReturn(g, o, MaxExpiresIn)
    \/ \E t \in Callers : AddRemove(t)
    \/ \E t \in Callers, w \in WatcherIDs : CloseCall(t, w)
    \/ \E t \in Callers, ch \in Topics : CloseChannel(t, ch)
    \/ \E t \in Callers : CloseCancel(t)
    \/ \E t \in Callers : CloseRemove(t)
    \/ \E w \in WatcherIDs : TickerFire(w)
    \/ \E w \in WatcherIDs : ResubStart(w)
    \/ \E w \in WatcherIDs : ResubTick(w)
    \/ \E w \in WatcherIDs, o \in SubOutcomes : ResubSubReturn(w, o)
    \/ \E w \in WatcherIDs : ResubDone(w)
    \/ ClientClose
    \/ ClockTick
    \/ \E t \in Callers : Return(t)

\* Add, Close, the renewal loops and TwitchClient.Close, the calls made by
\* the caller goroutines Callers.
SpecRenew == Init /\ [][NextRenew]_vars

\* The renewal goroutines are scheduled: a loop whose select has a ready case
\* takes one, and a sub() call, bounded by the client's timeout, returns; so
\* does every token request, and a goroutine at c.tokenMtx.Lock() gets the
\* lock once it stays free.
ResubFairness ==
    /\ \A w \in 1..MaxWatchers :
          /\ WF_vars(ResubStart(w))
          /\ WF_vars(ResubTick(w))
          /\ WF_vars(\E o \in {"accepted", "error"} : ResubSubReturn(w, o))
          /\ WF_vars(ResubDone(w))
    /\ \A g \in Goroutines :
          /\ WF_vars(RequestAuth(g))
          /\ WF_vars(\E o \in {"ok", "error"} : AuthFetchReturn(g, o, MaxExpiresIn))

\* The steps of SpecRenew with fewer inputs: the subscribe call answered 202
\* or failing, the token request answered 200 or failing, the clock running
\* through MaxLockTicks ticker periods.
NextRenewFair ==
    \/ \E t \in Callers, tp \in Topics, u \in UserIDs : AddBegin(t, tp, u)
    \/ \E t \in Callers, o \in {"accepted", "error"} : AddSubReturn(t, o)
    \/ \E g \in Goroutines : RequestAuth(g)
    \/ \E g \in Goroutines, o \in {"ok", "error"} :
          AuthFetchReturn(g, o, MaxExpiresIn)
    \/ \E t \in Callers : AddRemove(t)
    \/ \E t \in Callers, w \in WatcherIDs : CloseCall(t, w)
    \/ \E t \in Callers, ch \in Topics : CloseChannel(t, ch)
    \/ \E t \in Callers : CloseCancel(t)
    \/ \E t \in Callers : CloseRemove(t)
    \/ \E w \in WatcherIDs :
          /\ ticker[w].last + ticker[w].period <= ClockEnd(MaxLockTicks)
          /\ TickerFire(w)
    \/ \E w \in WatcherIDs : ResubStart(w)
    \/ \E w \in WatcherIDs : ResubTick(w)
    \/ \E w \in WatcherIDs, o \in {"accepted", "error"} : ResubSubReturn(w, o)
    \/ \E w \in WatcherIDs : ResubDone(w)
    \/ ClientClose
    \/ ClockTick
    \/ \E t \in Callers : Return(t)

SpecRenewFair == Init /\ [][NextRenewFair]_vars /\ ResubFairness

\* The client of Init, the history of sends and receives switched on.
InitDelivery ==
    /\ InitWeb
    /\ InitToken
    /\ creds = [clientID |-> "id", clientSecret |-> "secret"]
    /\ trace = TraceOn

NextDelivery ==
    \/ \E t \in Threads, tp \in Topics, u \in UserIDs : AddBegin(t, tp, u)
    \/ \E t \in Threads, o \in SubOutcomes : AddSubReturn(t, o)
    \/ \E g \in Goroutines : RequestAuth(g)
    \/ \E g \in Goroutines, o \in TokenOutcomes : AuthFetchReturn(g, o, MaxExpiresIn)
    \/ \E t \in Threads : AddRemove(t)
    \/ \E t \in Threads, tp \in TopicParams, u \in UserIDParams :
          HandlerDeliver(t, tp, u)
    \/ \E t \in Threads, b \in Bodies : HandlerRead(t, b)
    \/ \E t \in Threads : HandlerSend(t)
    \/ \E w \in WatcherIDs, ch \in Topics : Recv(w, ch)
    \/ \E t \in Threads, w \in WatcherIDs : CloseCall(t, w)
    \/ \E t \in Threads, ch \in Topics : CloseChannel(t, ch)
    \/ \E t \in Threads : CloseCancel(t)
    \/ \E t \in Threads : CloseRemove(t)
    \/ ClockTick
    \/ \E t \in Threads : Return(t)

\* Add, the deliveries of the webhook handler, the consumers and Close, with
\* the history kept.
SpecDelivery == InitDelivery /\ [][NextDelivery]_vars

\* Request bodies of the deliveries under SpecLocks: a data array that is
\* empty or holds one null (the follows loop panics on it, the lock held).
LockBodies ==
    { b \in Bodies : b.read /\ b.data = "array" /\ b.items \in { <<>>, <<JNull>> } }

\* What doRequest comes back with under SpecLocks: either result for a
\* subscribe call (the error path of addStreamWatcher locks again), any
\* result for a lookup, whose answer holds one element or none.
LockOutcomes == {"accepted", "error"}
LockAnswers ==
    { b \in AnswerBodies : b.data = "array" /\ b.items \in { <<>>, <<Obj1>> } }

NextLocks ==
    \/ \E t \in Threads, tp \in Topics, u \in UserIDs :
          /\ HasKey(streamWatchers, makeTopicKey(tp, u)) \/ Len(sws) < MaxLockWatchers
          /\ AddBegin(t, tp, u)
    \/ \E t \in Threads, o \in LockOutcomes : AddSubReturn(t, o)
    \/ \E t \in Threads : AddRemove(t)
    \/ \E t \in Threads, u \in UserIDs :
          HandlerDenied(t, makeTopicKey("streams", u))
    \/ \E t \in Threads, tp \in Topics, u \in UserIDs : HandlerDeliver(t, tp, u)
    \/ \E t \in Threads, b \in LockBodies : HandlerRead(t, b)
    \/ \E t \in Threads : HandlerSend(t)
    \/ \E t \in Threads, w \in WatcherIDs : CloseCall(t, w)
    \/ \E t \in Threads, ch \in Topics : CloseChannel(t, ch)
    \/ \E t \in Threads : CloseCancel(t)
    \/ \E t \in Threads : CloseRemove(t)
    \/ \E w \in WatcherIDs :
          /\ ticker[w].last + ticker[w].period <= ClockEnd(MaxLockTicks)
          /\ TickerFire(w)
    \/ \E w \in WatcherIDs : ResubStart(w)
    \/ \E w \in WatcherIDs : ResubTick(w)
    \/ \E w \in WatcherIDs :
          \E o \in RequestOutcomes(resubGoroutine(w), LockOutcomes) :
             ResubSubReturn(w, o)
    \/ \E w \in WatcherIDs : ResubDone(w)
    \/ \E t \in Threads : LookupBegin(t, "streams")
    \/ \E t \in Threads, b \in LockAnswers :
          \E o \in RequestOutcomes(t, LookupOutcomes) : LookupReturn(t, o, b)
    \/ \E g \in Goroutines : RequestAuth(g)
    \/ \E g \in Goroutines, o \in {"ok", "error"} :
          AuthFetchReturn(g, o, MaxExpiresIn)
    \/ ClockTick
    \/ \E t \in Threads : Return(t)

\* Add, Close, the webhook handler, the renewal loops and the lookups.
SpecLocks == Init /\ [][NextLocks]_vars

\* ================================================================ claims
\* A StreamWatcher is live: returned by addStreamWatcher, no channel closed,
\* its context not cancelled.
Live(w) ==
    /\ w \in returned
    /\ ~sws[w].streamsClosed
    /\ ~sws[w].followsClosed
    /\ ~ctxDone(w)

\* Goroutine t takes a step of addStreamWatcher's first part (lock, lookup,
\* insert or reject) for the key it names in its frame afterwards.
AddBeginStep(t) ==
    /\ pc[t] = "idle"
    /\ pc'[t] \in {"add_sub", "done"}
    /\ frame'[t].op = "add"

\* C1: an Add for a key whose StreamWatcher was returned by an earlier Add and
\* is still in the registry returns the "already subscribed" error and no
\* StreamWatcher, sends no subscribe request, and leaves the registry and
\* every StreamWatcher (its channels included) as they were.
C1_SecondAddRejected ==
    [][ \A t \in Threads :
          ( /\ AddBeginStep(t)
            /\ frame'[t].key \in DOMAIN streamWatchers
            /\ streamWatchers[frame'[t].key] \in returned )
          => ( /\ pc'[t] = "done"
               /\ frame'[t].err = "already subscribed to topic"
               /\ frame'[t].sw = 0
               /\ streamWatchers' = streamWatchers
               /\ sws' = sws
               /\ resub' = resub
               /\ subState' = subState
               /\ streamWatchersMtx' = streamWatchersMtx ) ]_vars

\* An Add was rejected for a key whose returned StreamWatcher is registered.
C1_Witness ==
    \E t \in Threads :
        /\ pc[t] = "done"
        /\ frame[t].op = "add"
        /\ frame[t].err = "already subscribed to topic"
        /\ frame[t].key \in DOMAIN streamWatchers
        /\ streamWatchers[frame[t].key] \in returned

\* C2: whenever the registry lock is free (so that any goroutine may take it
\* and look a key up), every StreamWatcher in the registry has had its initial
\* subscribe call answered 202.
C2_NotDiscoverableBeforeSubscribed ==
    streamWatchersMtx = NoThread
        => \A k \in DOMAIN streamWatchers : subState[streamWatchers[k]] = "accepted"

\* C3: the handler is never about to send on a channel that is closed.
C3_NoSendOnClosedChannel ==
    \A t \in Threads :
        pc[t] = "h_send" => ~ChanClosed(frame[t].sw, frame[t].chan)

\* A Close call by goroutine t has returned normally.
CloseReturned(t) == pc[t] = "done" /\ frame[t].op = "close"

\* C4: the teardown of a StreamWatcher runs at most once, and exactly once,
\* to its end, when a Close has returned; no Close panics on a closed
\* channel; a Close call that does not run the teardown changes nothing.
C4_CloseTeardownOnce ==
    /\ [](\A w \in WatcherIDs : teardowns[w] <= 1)
    /\ [](\A t \in Threads :
            CloseReturned(t)
            => ( /\ frame[t].err = ""
                 /\ teardowns[frame[t].sw] = 1
                 /\ sws[frame[t].sw].closeOnce = "done"
                 /\ sws[frame[t].sw].streamsClosed
                 /\ sws[frame[t].sw].followsClosed
                 /\ sws[frame[t].sw].cancelled ))
    /\ [][ \A t \in Threads :
            ( /\ pc[t] = "idle"
              /\ pc'[t] = "done"
              /\ frame'[t].op = "close" )
            => ( /\ sws' = sws
                 /\ streamWatchers' = streamWatchers
                 /\ teardowns' = teardowns
                 /\ resub' = resub
                 /\ streamWatchersMtx' = streamWatchersMtx ) ]_vars

\* Two goroutines have both returned from Close on the same StreamWatcher.
C4_Witness ==
    \E t1, t2 \in Threads :
        /\ t1 # t2
        /\ CloseReturned(t1)
        /\ CloseReturned(t2)
        /\ frame[t1].sw = frame[t2].sw

\* C5: no channel ever holds more than ChanCap events, and a send by the
\* handler on a channel that holds ChanCap events leaves the buffer as it is
\* and lets the handler go on: to the next element, or, after the last one,
\* to its 200 response.
C5_DropOnFullThenRespond ==
    /\ [](\A w \in WatcherIDs :
            Len(sws[w].streams) <= ChanCap /\ Len(sws[w].follows) <= ChanCap)
    /\ [][ \A t \in Threads :
            ( /\ pc[t] = "h_send"
              /\ Len(ChanBuf(frame[t].sw, frame[t].chan)) = ChanCap
              /\ pc'[t] # "h_send" \/ frame'[t] # frame[t] )
            => ( /\ sws' = sws
                 /\ \/ pc'[t] = "h_send"
                    \/ ( /\ pc'[t] = "done"
                         /\ frame'[t].err = ""
                         /\ frame'[t].status = StatusOK ) ) ]_vars

\* C8: when the handler has answered a denied callback whose hub.topic is the
\* topic URL of subscription (topic, userID), that subscription's key is not
\* in the registry, and the answer is 200.
C8_DeniedRemovesWatcher ==
    [][ \A t \in Threads :
          ( /\ pc[t] = "idle"
            /\ pc'[t] = "done"
            /\ frame'[t].op = "denied" )
          => ( /\ frame'[t].status = StatusOK
               /\ \A tp \in Topics, u \in UserIDs :
                     frame'[t].key = makeTopicURL(tp, u).url
                     => makeTopicKey(tp, u) \notin DOMAIN streamWatchers' ) ]_vars

\* C9: an Add whose subscribe call fails returns the error and no
\* StreamWatcher; when it returns, its key is not in the registry; none of
\* its steps touches another key; and a StreamWatcher whose subscribe call
\* failed is never returned and never gets a renewal loop.
C9_FailedAddLeavesNoTrace ==
    /\ [](\A w \in WatcherIDs :
            subState[w] = "failed" => (w \notin returned /\ resub[w] = "none"))
    /\ [][ \A t \in Threads :
            ( pc[t] = "add_remove" /\ pc'[t] # "add_remove" )
            => ( /\ pc'[t] = "done"
                 /\ frame'[t].op = "add"
                 /\ frame'[t].err # ""
                 /\ frame'[t].sw = 0
                 /\ frame[t].key \notin DOMAIN streamWatchers'
                 /\ returned' = returned
                 /\ resub' = resub
                 /\ \A k \in (DOMAIN streamWatchers) \ {frame[t].key} :
                       k \in DOMAIN streamWatchers'
                       /\ streamWatchers'[k] = streamWatchers[k] ) ]_vars
    /\ [][ \A t \in Threads :
            ( AddBeginStep(t) /\ pc'[t] = "add_sub" )
            => ( /\ frame'[t].key \notin DOMAIN streamWatchers
                 /\ \A k \in DOMAIN streamWatchers :
                       k \in DOMAIN streamWatchers'
                       /\ streamWatchers'[k] = streamWatchers[k] ) ]_vars

\* An Add has returned a subscribe error, and its key is free again.
C9_Witness ==
    \E t \in Threads :
        /\ pc[t] = "done"
        /\ frame[t].op = "add"
        /\ frame[t].err \in {"unexpected status code", "error making request"}
        /\ frame[t].key \notin DOMAIN streamWatchers

\* C10: no two live StreamWatchers have the same key.
C10_AtMostOneLivePerKey ==
    \A w1, w2 \in WatcherIDs :
        (w1 # w2 /\ Live(w1) /\ Live(w2)) => topicKey(w1) # topicKey(w2)

\* C6: the Bearer header a call of authenticate attaches carries a token
\* whose ExpiresAt is after the time of the call.
C6_NeverExpiredToken ==
    [][ \A t \in AuthThreads :
          ( /\ apc[t] = "fetching" \/ header'[t] # header[t]
            /\ apc'[t] = "idle"
            /\ header'[t].kind = "Bearer" )
          => header'[t].ExpiresAt > now' ]_vars

\* C7: no token request is started while the token last granted by the
\* identity endpoint is within the lifetime (expires_in) it was granted
\* with: the callers that find it cached reuse it.
C7_OneFetchPerMiss ==
    [][ \A t \in AuthThreads :
          ( apc[t] = "idle" /\ apc'[t] = "fetching" )
          => ~( granted.set /\ now < granted.at + granted.expires_in ) ]_vars

\* C11: a subscribe / unsubscribe handshake is answered 200 with exactly the
\* request's hub.challenge as the body, whatever the registry holds, and the
\* step leaves the registry, the lock and every StreamWatcher as they were.
C11_ChallengeEchoed ==
    /\ [](\A t \in Threads :
            (pc[t] = "done" /\ frame[t].op = "challenge")
            => ( /\ frame[t].body = frame[t].req
                 /\ frame[t].status = StatusOK
                 /\ frame[t].err = "" ))
    /\ [][ \A t \in Threads :
            ( /\ pc[t] = "idle"
              /\ pc'[t] = "done"
              /\ frame'[t].op = "challenge" )
            => ( /\ streamWatchers' = streamWatchers
                 /\ streamWatchersMtx' = streamWatchersMtx
                 /\ sws' = sws ) ]_vars

\* An unsubscribe handshake with challenge abc123 has been answered while a
\* StreamWatcher with an event in its channel is registered.
C11_Witness ==
    \E t \in Threads :
        /\ pc[t] = "done"
        /\ frame[t].op = "challenge"
        /\ frame[t].key = "unsubscribe"
        /\ frame[t].req = "abc123"
        /\ \E k \in DOMAIN streamWatchers : sws[streamWatchers[k]].streams # <<>>

\* C12: every delivery-path request that the handler has finished with was
\* answered with status 200.
C12_DeliveryAlways200 ==
    \A t \in Threads :
        (pc[t] = "done" /\ frame[t].op = "handler") => frame[t].status = StatusOK

\* C13: the handler's send for a streams delivery with zero entries, to the
\* registered StreamWatcher it looked up, whose streams channel holds fewer
\* than ChanCap events, appends exactly one nil stream to that channel and
\* answers 200; a handler that returns without reaching a send (a follows
\* delivery with zero entries among them) changes no channel, and no follows
\* channel ever holds a nil element.
C13_EmptyStreamsIsOfflineSignal ==
    /\ [][ \A t \in Threads :
            ( /\ pc[t] = "h_send"
              /\ frame[t].chan = "streams"
              /\ frame[t].data = <<>>
              /\ frame[t].pending = << NilStream >>
              /\ frame[t].key \in DOMAIN streamWatchers
              /\ streamWatchers[frame[t].key] = frame[t].sw
              /\ Len(sws[frame[t].sw].streams) < ChanCap
              /\ pc'[t] # "h_send" )
            => ( /\ sws'[frame[t].sw].streams =
                       Append(sws[frame[t].sw].streams, NilStream)
                 /\ sws'[frame[t].sw].follows = sws[frame[t].sw].follows
                 /\ pc'[t] = "done"
                 /\ frame'[t].status = StatusOK ) ]_vars
    /\ [][ \A t \in Threads :
            ( /\ pc[t] \in {"idle", "h_read"}
              /\ pc'[t] = "done"
              /\ frame'[t].op = "handler" )
            => sws' = sws ]_vars
    /\ [](\A w \in WatcherIDs :
            \A i \in 1..Len(sws[w].follows) : sws[w].follows[i] # NilStream)

\* C14: a running ticker has the period 540 s for the lease of 600 s; the
\* ticks of one StreamWatcher are 540 s apart, the first 540 s after the
\* loop's start; the loop sends a subscribe request exactly when it takes a
\* tick; and every request the loop has sent has the topic URL, the callback
\* URL, the lease seconds and the secret of the StreamWatcher's initial
\* request.
C14_RenewalPeriodAndParameters ==
    /\ [](\A w \in WatcherIDs :
            /\ sws[w].lease = 600
            /\ ticker[w].running => ticker[w].period = 540)
    /\ [][ \A w \in WatcherIDs :
            ( ticker[w].running /\ ticker'[w].last # ticker[w].last )
            => ( /\ ticker'[w].last - ticker[w].last = 540
                 /\ now' = ticker'[w].last
                 /\ ticker'[w].pending ) ]_vars
    /\ [][ \A w \in WatcherIDs :
            ( ticker[w].pending /\ ~ticker'[w].pending )
            <=> ( resub[w] = "select" /\ resub'[w] = "sub" ) ]_vars
    /\ [][ \A w \in WatcherIDs :
            ( resub[w] = "select" /\ resub'[w] = "sub" )
            => \E r \in subRequests'[w].renewed :
                  /\ r.Mode = "subscribe"
                  /\ r.Topic = subRequests[w].initial.Topic
                  /\ r.Callback = subRequests[w].initial.Callback
                  /\ r.Lease = subRequests[w].initial.Lease
                  /\ r.Secret = subRequests[w].initial.Secret ]_vars
    /\ [](\A w \in WatcherIDs :
            /\ subRequests[w].initial.Lease = 600
            /\ \A r \in subRequests[w].renewed :
                  /\ r.Topic = subRequests[w].initial.Topic
                  /\ r.Callback = subRequests[w].initial.Callback
                  /\ r.Lease = subRequests[w].initial.Lease
                  /\ r.Secret = subRequests[w].initial.Secret)

\* A renewal loop has taken its second tick, 1080 s after its start, and has
\* sent the request.
C14_Witness ==
    \E w \in WatcherIDs :
        /\ ticker[w].last = 1080
        /\ now = 1080
        /\ resub[w] = "sub"
        /\ subRequests[w].renewed # {}

\* C15: the subscribe handshake with challenge abc123 is answered abc123; and
\* when the handler sends the event of a delivery for streams/42 whose data
\* array is one object with viewer_count 10, to the StreamWatcher registered
\* for streams/42 by an Add whose subscribe was answered 202, whose streams
\* channel is empty and has not been closed, then the channel holds exactly
\* one event, a stream with viewer_count 10 (the next receive yields it), the
\* follows channel is untouched and the answer is 200.
C15_EndToEnd ==
    /\ [](\A t \in Threads :
            ( /\ pc[t] = "done"
              /\ frame[t].op = "challenge"
              /\ frame[t].key = "subscribe"
              /\ frame[t].req = "abc123" )
            => frame[t].body = "abc123")
    /\ [][ \A t \in Threads :
            ( /\ pc[t] = "h_send"
              /\ frame[t].key = "streams/42"
              /\ Len(frame[t].data) = 1
              /\ frame[t].data[1] # JNull
              /\ frame[t].data[1].viewer_count = 10
              /\ subState[frame[t].sw] = "accepted"
              /\ sws[frame[t].sw].topic = "streams"
              /\ sws[frame[t].sw].userID = "42"
              /\ sws[frame[t].sw].streams = <<>>
              /\ ~sws[frame[t].sw].streamsClosed
              /\ pc'[t] # "h_send" \/ frame'[t] # frame[t] )
            => ( /\ Len(sws'[frame[t].sw].streams) = 1
                 /\ sws'[frame[t].sw].streams[1].kind = "Stream"
                 /\ sws'[frame[t].sw].streams[1].viewer_count = 10
                 /\ sws'[frame[t].sw].follows = sws[frame[t].sw].follows
                 /\ pc'[t] = "done"
                 /\ frame'[t].status = StatusOK ) ]_vars

\* The scenario has run: WatchStream("42") was accepted and returned the
\* StreamWatcher, the handler has answered the delivery 200, and the
\* StreamWatcher's streams channel holds the one event with viewer_count 10.
C15_Witness ==
    \E t \in Threads, w \in WatcherIDs :
        /\ pc[t] = "done"
        /\ frame[t].op = "handler"
        /\ frame[t].status = StatusOK
        /\ w \in returned
        /\ subState[w] = "accepted"
        /\ "streams/42" \in DOMAIN streamWatchers
        /\ streamWatchers["streams/42"] = w
        /\ sws[w].streams = << [kind |-> "Stream", viewer_count |-> 10] >>
        /\ ~sws[w].streamsClosed

\* The teardown of StreamWatcher w has run to its end: every Close call on w
\* that returns, returns after this.
Closed(w) == sws[w].closeOnce = "done"

\* C16: a Close call returns only when the StreamWatcher is closed; a closed
\* StreamWatcher has its context cancelled and both channels closed, and no
\* key of the registry maps to it; it stays closed, with its context
\* cancelled and its channels closed, and its channels accept no event: each
\* buffer only loses its head to a receive, so a consumer that drains it
\* reaches the end of the stream.
C16_ClosedIsFinal ==
    /\ [](\A t \in Threads : CloseReturned(t) => Closed(frame[t].sw))
    /\ [](\A w \in WatcherIDs :
            Closed(w)
            => ( /\ sws[w].cancelled
                 /\ sws[w].streamsClosed
                 /\ sws[w].followsClosed
                 /\ \A k \in DOMAIN streamWatchers : streamWatchers[k] # w ))
    /\ [][ \A w \in WatcherIDs :
            Closed(w)
            => ( /\ sws'[w].closeOnce = "done"
                 /\ sws'[w].cancelled
                 /\ sws'[w].streamsClosed
                 /\ sws'[w].followsClosed
                 /\ \/ sws'[w].streams = sws[w].streams
                    \/ ( sws[w].streams # <<>>
                         /\ sws'[w].streams = Tail(sws[w].streams) )
                 /\ \/ sws'[w].follows = sws[w].follows
                    \/ ( sws[w].follows # <<>>
                         /\ sws'[w].follows = Tail(sws[w].follows) ) ) ]_vars

\* Close has returned on a StreamWatcher whose follows channel still holds
\* events, and another StreamWatcher is registered under the same key.
C16_Witness ==
    \E t \in Threads, w \in WatcherIDs :
        /\ CloseReturned(t)
        /\ frame[t].sw = w
        /\ sws[w].follows # <<>>
        /\ topicKey(w) \in DOMAIN streamWatchers

\* C17: an Add rejects its key only while a StreamWatcher that is not closed
\* is registered under it; an Add that passes the lookup registers a
\* StreamWatcher allocated by this call; an Add whose subscribe is answered
\* 202 returns that StreamWatcher, one never returned before and not closed,
\* with open, empty channels, a context of its own that is not cancelled and
\* a fresh Once; and a closed StreamWatcher is never what a handler's lookup
\* found.
C17_NoResurrection ==
    /\ [][ \A t \in Threads :
            ( AddBeginStep(t) /\ pc'[t] = "done" )
            => ( /\ frame'[t].key \in DOMAIN streamWatchers
                 /\ ~Closed(streamWatchers[frame'[t].key]) ) ]_vars
    /\ [][ \A t \in Threads :
            ( AddBeginStep(t) /\ pc'[t] = "add_sub" )
            => ( /\ frame'[t].sw = Len(sws) + 1
                 /\ Len(sws') = Len(sws) + 1
                 /\ streamWatchers'[frame'[t].key] = frame'[t].sw
                 /\ \A w \in WatcherIDs : sws'[w] = sws[w] ) ]_vars
    /\ [][ \A t \in Threads :
            ( pc[t] = "add_sub" /\ pc'[t] = "done" )
            => ( /\ frame'[t].err = ""
                 /\ frame'[t].sw = frame[t].sw
                 /\ frame[t].sw \notin returned
                 /\ frame[t].sw \in returned'
                 /\ sws'[frame[t].sw].closeOnce = "fresh"
                 /\ sws'[frame[t].sw].streams = <<>>
                 /\ sws'[frame[t].sw].follows = <<>>
                 /\ ~sws'[frame[t].sw].streamsClosed
                 /\ ~sws'[frame[t].sw].followsClosed
                 /\ ~sws'[frame[t].sw].cancelled ) ]_vars
    /\ [](\A t \in Threads :
            pc[t] \in {"add_sub", "h_read", "h_send"} => ~Closed(frame[t].sw))

\* The StreamWatcher of a key was closed, and a new Add for the key has
\* returned another StreamWatcher, which is registered.
C17_Witness ==
    \E t \in Threads, w \in WatcherIDs :
        /\ pc[t] = "done"
        /\ frame[t].op = "add"
        /\ frame[t].err = ""
        /\ frame[t].sw # w
        /\ Closed(w)
        /\ topicKey(w) = frame[t].key
        /\ frame[t].key \in DOMAIN streamWatchers
        /\ streamWatchers[frame[t].key] = frame[t].sw

\* C18: a goroutine whose subscribe request is outstanding does not hold the
\* registry lock.
C18_NoLockAcrossSubscribe ==
    \A t \in Threads : pc[t] = "add_sub" => streamWatchersMtx # t

\* C19: when a sub() call of the renewal loop returns, with an error or
\* without, the loop is back at its select with its ticker running on the
\* same schedule, and the step changes neither the registry, nor any
\* StreamWatcher (channels, context), nor the client's context; the loop then
\* calls sub() again when it takes its next tick; and a loop stops only at its
\* select, with its StreamWatcher's or the client's context cancelled.
C19_RenewalFailureNotFatal ==
    /\ [][ \A w \in WatcherIDs :
            ( resub[w] = "sub" /\ resub'[w] # "sub" )
            => ( /\ resub'[w] = "select"
                 /\ ticker'[w] = ticker[w]
                 /\ ticker[w].running
                 /\ streamWatchers' = streamWatchers
                 /\ sws' = sws
                 /\ clientCancelled' = clientCancelled ) ]_vars
    /\ [][ \A w \in WatcherIDs :
            ( /\ resub[w] = "select"
              /\ subRequests[w].err # ""
              /\ ticker[w].pending
              /\ ~ticker'[w].pending )
            => ( /\ resub'[w] = "sub"
                 /\ WebhookSubscription(w) \in subRequests'[w].renewed ) ]_vars
    /\ [][ \A w \in WatcherIDs :
            ( resub[w] # "stopped" /\ resub'[w] = "stopped" )
            => ( resub[w] = "select" /\ ctxDone(w) ) ]_vars
    /\ [](\A w \in WatcherIDs :
            resub[w] \in {"select", "sub"} => ticker[w].running)

\* A renewal failed, and at its next tick the loop of the still registered,
\* still live StreamWatcher has sent another subscribe request.
C19_Witness ==
    \E w \in WatcherIDs :
        /\ subRequests[w].err # ""
        /\ resub[w] = "sub"
        /\ Live(w)
        /\ topicKey(w) \in DOMAIN streamWatchers
        /\ streamWatchers[topicKey(w)] = w

\* C20: once the client's context is cancelled, every renewal loop that is
\* running, of a StreamWatcher created before or after the cancellation,
\* eventually stops; the cancel of one StreamWatcher's Close changes that
\* StreamWatcher only; and a loop is stopped only if its own StreamWatcher's
\* context or the client's is cancelled.
C20_ClientCloseStopsAllLoops ==
    /\ \A w \in 1..MaxWatchers :
          ( /\ clientCancelled
            /\ w \in WatcherIDs
            /\ resub[w] \in {"start", "select", "sub"} )
          ~> ( w \in WatcherIDs /\ resub[w] = "stopped" )
    /\ [][ \A t \in Threads :
            ( pc[t] = "close_cancel" /\ pc'[t] # "close_cancel" )
            => ( /\ sws'[frame[t].sw].cancelled
                 /\ \A v \in WatcherIDs \ {frame[t].sw} : sws'[v] = sws[v]
                 /\ clientCancelled' = clientCancelled
                 /\ resub' = resub ) ]_vars
    /\ [](\A w \in WatcherIDs :
            resub[w] = "stopped" => (sws[w].cancelled \/ clientCancelled))

\* After TwitchClient.Close the loops of two StreamWatchers have stopped, one
\* of which was never closed itself.
C20_Witness ==
    /\ clientCancelled
    /\ \E w1, w2 \in WatcherIDs :
          /\ w1 # w2
          /\ resub[w1] = "stopped"
          /\ resub[w2] = "stopped"
          /\ ~sws[w1].cancelled

\* C22: a delivery request never changes the registry; a request that ends
\* without a send changes no StreamWatcher; a request reaches a send only with
\* both parameters present and a StreamWatcher registered under their key,
\* which is then the one it sends to; and a send changes nothing but the
\* channel of the request's topic in that one StreamWatcher.
C22_DeliveryChangesOnlyTarget ==
    /\ [][ \A t \in Threads :
            ( /\ pc[t] \in {"idle", "h_read"}
              /\ pc'[t] = "done"
              /\ frame'[t].op = "handler" )
            => ( streamWatchers' = streamWatchers /\ sws' = sws ) ]_vars
    /\ [][ \A t \in Threads :
            ( pc[t] = "idle" /\ pc'[t] = "h_read" )
            => ( /\ streamWatchers' = streamWatchers
                 /\ sws' = sws
                 /\ frame'[t].key \in DOMAIN streamWatchers
                 /\ frame'[t].key \in { makeTopicKey(tp, u) :
                                          tp \in Topics, u \in UserIDs }
                 /\ streamWatchers[frame'[t].key] = frame'[t].sw ) ]_vars
    /\ [][ \A t \in Threads :
            ( pc[t] = "h_read" /\ pc'[t] = "h_send" )
            => ( /\ streamWatchers' = streamWatchers
                 /\ sws' = sws
                 /\ frame'[t].key = frame[t].key
                 /\ frame'[t].sw = frame[t].sw ) ]_vars
    /\ [][ \A t \in Threads :
            ( pc[t] = "h_send" /\ (pc'[t] # "h_send" \/ frame'[t] # frame[t]) )
            => ( /\ streamWatchers' = streamWatchers
                 /\ frame[t].key \in DOMAIN streamWatchers
                 /\ streamWatchers[frame[t].key] = frame[t].sw
                 /\ topicKey(frame[t].sw) = frame[t].key
                 /\ \A v \in WatcherIDs \ {frame[t].sw} : sws'[v] = sws[v]
                 /\ \A k \in DOMAIN streamWatchers :
                       k # frame[t].key
                       => sws'[streamWatchers[k]] = sws[streamWatchers[k]]
                 /\ IF frame[t].chan = "streams"
                    THEN sws'[frame[t].sw] =
                           [sws[frame[t].sw] EXCEPT
                              !.streams = sws'[frame[t].sw].streams]
                    ELSE sws'[frame[t].sw] =
                           [sws[frame[t].sw] EXCEPT
                              !.follows = sws'[frame[t].sw].follows] ) ]_vars

\* A delivery for follows/42 has been answered 200 with its event in the
\* follows StreamWatcher's channel, while the StreamWatcher registered under
\* streams/42 has empty channels.
C22_Witness ==
    \E t \in Threads :
        /\ pc[t] = "done"
        /\ frame[t].op = "handler"
        /\ frame[t].status = StatusOK
        /\ "follows/42" \in DOMAIN streamWatchers
        /\ "streams/42" \in DOMAIN streamWatchers
        /\ sws[streamWatchers["follows/42"]].follows # <<>>
        /\ sws[streamWatchers["streams/42"]].streams = <<>>
        /\ sws[streamWatchers["streams/42"]].follows = <<>>

\* C23: the follows channel of a StreamWatcher made by WatchStream is always
\* empty, the streams channel of one made by WatchFollows is always empty,
\* a streams channel holds only streams and nil streams, and a follows
\* channel holds only follows.
C23_OnlyOwnKind ==
    \A w \in WatcherIDs :
        /\ sws[w].topic \in Topics
        /\ sws[w].topic = "streams" => sws[w].follows = <<>>
        /\ sws[w].topic = "follows" => sws[w].streams = <<>>
        /\ \A i \in 1..Len(sws[w].streams) :
              sws[w].streams[i].kind \in {"Stream", "nil"}
        /\ \A i \in 1..Len(sws[w].follows) : sws[w].follows[i].kind = "Follow"

\* A StreamWatcher of each topic is registered and each holds events in the
\* channel of its own kind.
C23_Witness ==
    \E w1, w2 \in WatcherIDs :
        /\ sws[w1].topic = "streams"
        /\ sws[w2].topic = "follows"
        /\ sws[w1].userID = sws[w2].userID
        /\ Len(sws[w1].streams) >= 1
        /\ Len(sws[w2].follows) >= 1

\* C25: the removal at the end of a StreamWatcher's Close leaves every
\* registry entry that maps to another StreamWatcher in place.
C25_CloseRemovesOwnEntryOnly ==
    [][ \A t \in Threads :
          ( pc[t] = "close_remove" /\ pc'[t] # "close_remove" )
          => \A k \in DOMAIN streamWatchers :
                streamWatchers[k] # frame[t].sw
                => ( k \in DOMAIN streamWatchers'
                     /\ streamWatchers'[k] = streamWatchers[k] ) ]_vars

\* C24: once the teardown of a StreamWatcher's Close has run to its end, or
\* TwitchClient.Close has returned, the StreamWatcher's renewal loop does not
\* go from its select into another sub() call.
C24_NoRenewalAfterClose ==
    [][ \A w \in WatcherIDs :
          ( Closed(w) \/ clientCancelled )
          => ~( resub[w] = "select" /\ resub'[w] = "sub" ) ]_vars

\* a is a subsequence of b: a is b with some elements left out.
RECURSIVE IsSubseq(_, _)
IsSubseq(a, b) ==
    IF a = <<>> THEN TRUE
    ELSE IF b = <<>> THEN FALSE
    ELSE IF Head(a) = Head(b) THEN IsSubseq(Tail(a), Tail(b))
    ELSE IsSubseq(a, Tail(b))

\* The event the send loop makes of element i of a delivery's data array; an
\* empty array on the streams topic makes the one stream-down signal.
EventOf(ch, data, i) ==
    IF ch = "streams"
    THEN IF data = <<>> THEN NilStream ELSE DecodeStream(data[i])
    ELSE DecodeFollow(data[i])

\* C21: delivery is FIFO per StreamWatcher and event kind. What a consumer has
\* received from a channel, followed by what the channel still holds, is a
\* subsequence of what the handlers' send loops processed for that channel
\* (events may be dropped, never reordered or duplicated); and every step of
\* a send loop processes the next element of its delivery's data array, in
\* array order.
C21_FifoPerChannel ==
    /\ [] ( trace.on =>
              \A w \in WatcherIDs : \A ch \in Topics :
                  IsSubseq(trace.recv[w][ch] \o ChanBuf(w, ch), trace.sent[w][ch]) )
    /\ [][ trace.on =>
             \A t \in Threads :
               ( pc[t] = "h_send" /\ trace'.sent # trace.sent )
               => LET w == frame[t].sw
                      ch == frame[t].chan
                      i == IF frame[t].data = <<>> THEN 1
                           ELSE Len(frame[t].data) - Len(frame[t].pending) + 1
                  IN  /\ i \in 1..(IF frame[t].data = <<>> THEN 1 ELSE Len(frame[t].data))
                      /\ trace'.sent[w][ch] =
                           Append(trace.sent[w][ch], EventOf(ch, frame[t].data, i))
                      /\ ( pc'[t] = "h_send" =>
                             Len(frame'[t].pending) = Len(frame[t].pending) - 1 ) ]_vars

\* Two handlers have delivered to one channel, the second delivery was cut
\* short by the full buffer, and the consumer has received events of both.
C21_Witness ==
    /\ trace.on
    /\ \E w \in WatcherIDs : \E ch \in Topics :
          /\ Len(trace.sent[w][ch]) > ChanCap
          /\ Len(trace.recv[w][ch]) > 3
          /\ Len(trace.recv[w][ch]) + Len(ChanBuf(w, ch)) < Len(trace.sent[w][ch])

\* Goroutine g is at, or may be about to make, a call whose next step locks
\* the registry: the Lock of addStreamWatcher, of the handler or of
\* removeStreamWatcher.
WantsRegistry(g) ==
    /\ g \in Threads
    /\ pc[g] \in {"idle", "add_remove", "close_remove"}

\* Goroutine g is at, or may be about to make, a call of authenticate, whose
\* next step locks the token.
WantsToken(g) ==
    \/ g \in Threads /\ pc[g] = "idle"
    \/ Authenticating(g)

\* Goroutine g waits for a lock that goroutine h holds.
WaitsFor(g, h) ==
    \/ WantsRegistry(g) /\ streamWatchersMtx = h
    \/ WantsToken(g) /\ tokenMtx = h

\* C26: the registry lock and the token lock never deadlock. No set of
\* goroutines has each member waiting for a lock held by a member (a goroutine
\* waiting for a lock it holds included); the holder of the registry lock is
\* inside addStreamWatcher's sub() or the handler's delivery branch and the holder
\* of the token lock is inside authenticate's token request, so a goroutine
\* that has returned holds no lock; the token lock is taken only when it is
\* free, by a goroutine holding no lock or the registry lock; the registry
\* lock is taken only when it is free, never by the holder of the token lock.
C26_NoLockCycle ==
    /\ [] ( \A S \in (SUBSET Goroutines) \ { {} } :
              \E g \in S : \A h \in S : ~WaitsFor(g, h) )
    /\ [] ( streamWatchersMtx # NoThread
              => /\ streamWatchersMtx \in Threads
                 /\ pc[streamWatchersMtx] \in {"add_sub", "h_read", "h_send"} )
    /\ [] ( \A g \in Goroutines :
              /\ tokenMtx = g => ( InRequest(g) /\ apc[g] = "fetching" )
              /\ apc[g] = "fetching" => tokenMtx = g )
    /\ [][ tokenMtx' # tokenMtx /\ tokenMtx' # NoThread
             => ( tokenMtx = NoThread /\ Authenticating(tokenMtx') ) ]_vars
    /\ [][ streamWatchersMtx' # streamWatchersMtx /\ streamWatchersMtx' # NoThread
             => ( streamWatchersMtx = NoThread /\ tokenMtx # streamWatchersMtx' ) ]_vars

\* addStreamWatcher holds the registry lock and waits, inside sub(), for the
\* token lock, which the other caller holds through the token request of its
\* lookup.
C26_Witness ==
    \E t \in Threads : \E u \in Threads :
        /\ streamWatchersMtx = t
        /\ pc[t] = "add_sub"
        /\ Authenticating(t)
        /\ u # t
        /\ tokenMtx = u
        /\ pc[u] = "lookup"
        /\ apc[u] = "fetching"

====
